---- MODULE Spec2Model ----
(***************************************************************************)
(* A model of llnl.util.tty.color: the '@' colour-expression language,     *)
(* its renderer colorize(), the stream writers cwrite()/cprint(),          *)
(* cescape() and the ColorStream wrapper.                                  *)
(*                                                                         *)
(* A Python string is a sequence of one-character strings.  The escape     *)
(* byte 0x1B is the character "ESC", the line feed is the character "LF".  *)
(***************************************************************************)
EXTENDS Integers, Sequences, FiniteSets, TLC

VARIABLES
    string,     \* the string argument of the call being made
    color,      \* the color argument: "True", "False" or None
    pc,         \* position of the caller
    result,     \* outcome of the last call: [raised, value]
    arg,        \* the value handed to cescape
    style,      \* components the styled span was built from
    letter,
    block,
    body,
    written,    \* what the wrapped stream received, one entry per write()
    tty,        \* what stream.isatty() answers now
    cs,         \* the ColorStream object: [built, color]
    ctor,       \* the arguments ColorStream() was called with: [color, tty]
    call        \* the last stream call: its arguments and what it saw

vars == <<string, color, pc, result, arg, style, letter, block, body,
          written, tty, cs, ctor, call>>

None == "None"

(***************************************************************************)
(* Bounds of the model.                                                    *)
(***************************************************************************)
MaxLen == 5
MaxBody == 6
MaxWrites == 3
MaxLines == 3

(***************************************************************************)
(* Characters.                                                             *)
(***************************************************************************)
ESC == "ESC"
LF == "LF"

Lower == {"a", "b", "c", "d", "e", "f", "g", "h", "i", "j", "k", "l", "m",
          "n", "o", "p", "q", "r", "s", "t", "u", "v", "w", "x", "y", "z"}
Upper == {"A", "B", "C", "D", "E", "F", "G", "H", "I", "J", "K", "L", "M",
          "N", "O", "P", "Q", "R", "S", "T", "U", "V", "W", "X", "Y", "Z"}
\* the character class [a-zA-Z] of color_re
Letters == Lower \cup Upper
\* the character class [*_] of color_re
StyleMarks == {"*", "_"}

\* str() of a small non-negative integer, digit by digit
Digit(d) ==
    CASE d = 0 -> "0" [] d = 1 -> "1" [] d = 2 -> "2" [] d = 3 -> "3"
      [] d = 4 -> "4" [] d = 5 -> "5" [] d = 6 -> "6" [] d = 7 -> "7"
      [] d = 8 -> "8" [] d = 9 -> "9"

RECURSIVE Str(_)
Str(n) == IF n < 10 THEN <<Digit(n)>> ELSE Str(n \div 10) \o <<Digit(n % 10)>>

\* Text styles for ansi codes
styles == ("*" :> <<"1">>) @@ ("_" :> <<"4">>) @@ (None :> <<"0">>)

\* a colour table whose bright colours start at 80
colorsBrightOff ==
    ("k" :> 30) @@ ("K" :> 80) @@ ("r" :> 31) @@ ("R" :> 81) @@
    ("g" :> 32) @@ ("G" :> 82) @@ ("y" :> 33) @@ ("Y" :> 83) @@
    ("b" :> 34) @@ ("B" :> 84) @@ ("m" :> 35) @@ ("M" :> 85) @@
    ("c" :> 36) @@ ("C" :> 86) @@ ("w" :> 37) @@ ("W" :> 87)

\* Dim and bright ansi colors
colors ==
    ("k" :> 30) @@ ("K" :> 90) @@ ("r" :> 31) @@ ("R" :> 91) @@
    ("g" :> 32) @@ ("G" :> 92) @@ ("y" :> 33) @@ ("Y" :> 93) @@
    ("b" :> 34) @@ ("B" :> 94) @@ ("m" :> 35) @@ ("M" :> 95) @@
    ("c" :> 36) @@ ("C" :> 96) @@ ("w" :> 37) @@ ("W" :> 97)

(***************************************************************************)
(* Outcomes of a call: a returned string, or a raised exception.           *)
(***************************************************************************)
Returned(v) == [raised |-> "", value |-> v]
Raised(e) == [raised |-> e, value |-> <<>>]
ColorParseError == "ColorParseError"
TypeError == "TypeError"

\* Python truth of the color argument
Truthy(c) == c = "True"

(***************************************************************************)
(* color_re, matched at position i of s where s[i] = "@": an "@" followed  *)
(* by "@", or by ".", or by an optional style mark, an optional letter and *)
(* an optional brace block, the three tried in that order.                 *)
(***************************************************************************)
\* The body loop (any character but "}", or the pair "}}", repeated) and
\* the closing "}", from position p.  The loop is greedy: at a "}" followed
\* by "}" it takes the pair and goes on; close is the last position where a pair was taken, which is where the
\* matcher backtracks to when no closing brace follows.  The value is the
\* position of the closing brace, 0 when the block cannot be closed.
RECURSIVE BodyClose(_, _, _)
BodyClose(s, p, close) ==
    IF p > Len(s) THEN close
    ELSE IF s[p] # "}" THEN BodyClose(s, p + 1, close)
    ELSE IF p + 1 <= Len(s) /\ s[p + 1] = "}" THEN BodyClose(s, p + 2, p)
    ELSE p

At(s, p) == IF p <= Len(s) THEN s[p] ELSE None

\* the match object: m is group(0), style/color/text are groups 1..3
\* (hasText is FALSE when group 3 is None), end is the position after m
Match(s, i) ==
    IF At(s, i + 1) = "@" THEN
        [m |-> <<"@", "@">>, style |-> None, color |-> None,
         hasText |-> FALSE, text |-> <<>>, end |-> i + 2]
    ELSE IF At(s, i + 1) = "." THEN
        [m |-> <<"@", ".">>, style |-> None, color |-> None,
         hasText |-> FALSE, text |-> <<>>, end |-> i + 2]
    ELSE
        LET st == IF At(s, i + 1) \in StyleMarks THEN s[i + 1] ELSE None
            j == IF st = None THEN i + 1 ELSE i + 2
            co == IF At(s, j) \in Letters THEN s[j] ELSE None
            k == IF co = None THEN j ELSE j + 1
            cl == IF At(s, k) = "{" THEN BodyClose(s, k + 1, 0) ELSE 0
            e == IF cl = 0 THEN k ELSE cl + 1
        IN  [m |-> SubSeq(s, i, e - 1), style |-> st, color |-> co,
             hasText |-> cl # 0,
             text |-> IF cl = 0 THEN <<>> ELSE SubSeq(s, k + 1, cl - 1),
             end |-> e]

(***************************************************************************)
(* match_to_ansi                                                           *)
(***************************************************************************)
\* an escape that forgets the color flag
escapeAlways(c, s) == <<ESC, "[">> \o s \o <<"m">>

\* match_to_ansi.escape: "\033[%sm" % s
escape(c, s) == IF Truthy(c) THEN <<ESC, "[">> \o s \o <<"m">> ELSE <<>>

\* a handler that lets a bare "@" through
IncompleteNever(m) == FALSE

\* m == '@': the match is a bare "@"
Incomplete(m) == m = <<"@">>

\* match_to_ansi.__call__
ToAnsi(c, match) ==
    IF match.m = <<"@", "@">> THEN Returned(<<"@">>)
    ELSE IF match.m = <<"@", ".">> THEN Returned(escape(c, Str(0)))
    ELSE IF Incomplete(match.m) THEN Raised(ColorParseError)
    ELSE IF match.color # None /\ match.color \notin DOMAIN colors
        THEN Raised(ColorParseError)
    ELSE
        LET str == IF match.color # None
                   THEN styles[match.style] \o <<";">> \o Str(colors[match.color])
                   ELSE styles[match.style]
            colored_text == IF match.hasText /\ match.text # <<>>
                            THEN match.text \o escape(c, Str(0))
                            ELSE <<>>
        IN  Returned(escape(c, str) \o colored_text)

(***************************************************************************)
(* colorize: re.sub(color_re, match_to_ansi(color), string)                *)
(***************************************************************************)
\* the scan of re.sub from position i: text outside a match is copied, a
\* match is replaced, and an exception of the handler ends the call
RECURSIVE Sub(_, _, _)
Sub(c, s, i) ==
    IF i > Len(s) THEN Returned(<<>>)
    ELSE IF s[i] # "@" THEN
        LET rest == Sub(c, s, i + 1)
        IN  IF rest.raised # "" THEN rest ELSE Returned(<<s[i]>> \o rest.value)
    ELSE
        LET match == Match(s, i)
            rep == ToAnsi(c, match)
        IN  IF rep.raised # "" THEN rep
            ELSE LET rest == Sub(c, s, match.end)
                 IN  IF rest.raised # "" THEN rest
                     ELSE Returned(rep.value \o rest.value)

colorize(s, c) == Sub(c, s, 1)

\* a cescape that doubles the first "@" only
cescapeFirst(s) ==
    IF \E i \in 1..Len(s) : s[i] = "@"
    THEN LET i == CHOOSE i \in 1..Len(s) :
                      s[i] = "@" /\ \A j \in 1..(i - 1) : s[j] # "@"
         IN  SubSeq(s, 1, i) \o <<"@">> \o SubSeq(s, i + 1, Len(s))
    ELSE s

\* cescape: str(string).replace('@', '@@')
RECURSIVE cescape(_)
cescape(s) ==
    IF s = <<>> THEN <<>>
    ELSE (IF Head(s) = "@" THEN <<"@", "@">> ELSE <<Head(s)>>) \o cescape(Tail(s))

(***************************************************************************)
(* Inputs.                                                                 *)
(***************************************************************************)
\* all strings of at most n characters of A
Strs(A, n) == UNION {[1..k -> A] : k \in 0..n}

Range(s) == {s[i] : i \in 1..Len(s)}

\* the characters input strings are made of: the characters of the syntax,
\* a colour letter, a letter that is no colour, and the escape byte
Alphabet == {"@", ".", "*", "_", "r", "x", "{", "}", ESC}

Bools == {"True", "False"}

NoCall == [op |-> "", string |-> <<>>, lines |-> <<>>, color |-> None,
           raw |-> FALSE, tty |-> FALSE, before |-> <<>>, raised |-> ""]
NoStream == [built |-> FALSE, color |-> None]
NoCtor == [color |-> None, tty |-> FALSE]

\* the variables a specification does not use
NoSpan == style = None /\ letter = None /\ block = FALSE /\ body = <<>>
NoWriter ==
    /\ written = <<>> /\ tty = FALSE /\ cs = NoStream /\ ctor = NoCtor
    /\ call = NoCall

(***************************************************************************)
(* Spec: colorize() and cescape() on every string over Alphabet.           *)
(***************************************************************************)
Init ==
    /\ arg \in Strs(Alphabet, MaxLen)
    /\ string = arg
    /\ color \in Bools
    /\ pc = "start"
    /\ result = Returned(<<>>)
    /\ NoSpan
    /\ NoWriter

\* string = cescape(arg)
Cescape ==
    /\ pc = "start"
    /\ string' = cescape(arg)
    /\ pc' = "escaped"
    /\ UNCHANGED <<color, result, arg, style, letter, block, body,
                   written, tty, cs, ctor, call>>

\* result = colorize(string, color=color)
Colorize ==
    /\ pc \in {"start", "escaped"}
    /\ result' = colorize(string, color)
    /\ pc' = IF pc = "start" THEN "colorized" ELSE "roundtrip"
    /\ UNCHANGED <<string, color, arg, style, letter, block, body,
                   written, tty, cs, ctor, call>>

Next == Cescape \/ Colorize

Spec == Init /\ [][Next]_vars

(***************************************************************************)
(* Claims about colorize() and cescape().                                  *)
(***************************************************************************)
\* C1: for every string s and for color both True and False,
\* colorize(cescape(s), color=color) returns exactly s and does not raise.
C1_RoundTrip == pc = "roundtrip" => result = Returned(arg)

\* a round trip of a string of "@", a brace and a letter has been made
C1_Witness ==
    /\ pc = "roundtrip"
    /\ arg = <<"@", "{", "@", "x">>
    /\ string = <<"@", "@", "{", "@", "@", "x">>
    /\ result = Returned(arg)

\* the positions at which the scan of re.sub begins a match, from position i
RECURSIVE MatchStarts(_, _)
MatchStarts(s, i) ==
    IF i > Len(s) THEN {}
    ELSE IF s[i] # "@" THEN MatchStarts(s, i + 1)
    ELSE {i} \cup MatchStarts(s, Match(s, i).end)

\* the characters that may follow "@"
Continuations == {"@", ".", "{"} \cup StyleMarks \cup Letters

\* the "@" at i is at the end of the input or before an unrecognized character
BareAt(s, i) == At(s, i + 1) \notin Continuations

\* the letter of the "@" expression at i is none of the 16 colour letters
BadLetterAt(s, i) ==
    /\ At(s, i + 1) \notin {"@", "."}
    /\ LET j == IF At(s, i + 1) \in StyleMarks THEN i + 2 ELSE i + 1
       IN  At(s, j) \in Letters \ {"k", "r", "g", "y", "b", "m", "c", "w",
                                   "K", "R", "G", "Y", "B", "M", "C", "W"}

\* C5: colorize raises ColorParseError, whatever the color flag, when the
\* scan meets an "@" at the end of the input or before a character that is
\* no continuation, or an "@" expression whose letter is no colour letter.
C5_Raises ==
    (/\ pc = "colorized"
     /\ \E i \in MatchStarts(string, 1) :
            BareAt(string, i) \/ BadLetterAt(string, i))
    => result = Raised(ColorParseError)

\* a bare "@" after a literal "@@", with color off
C5_Witness ==
    /\ pc = "colorized"
    /\ color = "False"
    /\ string = <<"@", "@", "@", "}">>
    /\ result = Raised(ColorParseError)

\* how many times character ch occurs in s
RECURSIVE Count(_, _)
Count(ch, s) ==
    IF s = <<>> THEN 0
    ELSE (IF Head(s) = ch THEN 1 ELSE 0) + Count(ch, Tail(s))

\* v without its escape sequences ESC[...m
RECURSIVE StripSgr(_, _)
StripSgr(v, inside) ==
    IF v = <<>> THEN <<>>
    ELSE IF inside THEN StripSgr(Tail(v), Head(v) # "m")
    ELSE IF Head(v) = ESC THEN StripSgr(Tail(v), TRUE)
    ELSE <<Head(v)>> \o StripSgr(Tail(v), FALSE)

\* C7 as claimed: for every input on which colorize does not raise,
\* colorize(x, color=False) contains no ESC character.
C7_NoEscapeByte ==
    (pc = "colorized" /\ color = "False" /\ result.raised = "")
    => ESC \notin Range(result.value)

\* C7 as amended: with color off colorize adds no ESC character; the output
\* holds exactly as many ESC characters as the input, none when it has none.
\* Every style, colour and reset renders to nothing while "@@" and the block
\* bodies are kept: the output of an input without ESC is the coloured
\* output without its escape sequences.
C7_NoEscapeAdded ==
    (pc = "colorized" /\ color = "False" /\ result.raised = "")
    => /\ Count(ESC, result.value) = Count(ESC, string)
       /\ ESC \notin Range(string)
          => /\ ESC \notin Range(result.value)
             /\ result.value = StripSgr(colorize(string, "True").value, FALSE)

\* a literal "@" and a colour were rendered with color off
C7_Witness ==
    /\ pc = "colorized"
    /\ color = "False"
    /\ string = <<"@", "@", "@", "r">>
    /\ result = Returned(<<"@">>)

(***************************************************************************)
(* SpecSpan: colorize() on one styled span, built from its components.     *)
(***************************************************************************)
\* the colour letters in the order of their ANSI codes
Dim == <<"k", "r", "g", "y", "b", "m", "c", "w">>
Bright == <<"K", "R", "G", "Y", "B", "M", "C", "W">>
ColourLetters == Range(Dim) \cup Range(Bright)

\* the characters block bodies are made of
BodyAlphabet == {"a", "b", "}"}

\* b is a run of characters in which a "}" only occurs as the pair "}}"
RECURSIVE IsBody(_)
IsBody(b) ==
    IF b = <<>> THEN TRUE
    ELSE IF Head(b) # "}" THEN IsBody(Tail(b))
    ELSE Len(b) >= 2 /\ b[2] = "}" /\ IsBody(Tail(Tail(b)))

Bodies == {b \in Strs(BodyAlphabet, MaxBody) : IsBody(b)}

\* the text of the span: "@", the style mark, the letter, the brace block
SpanText(st, l, bl, b) ==
    <<"@">> \o (IF st = None THEN <<>> ELSE <<st>>)
            \o (IF l = None THEN <<>> ELSE <<l>>)
            \o (IF bl THEN <<"{">> \o b \o <<"}">> ELSE <<>>)

InitSpan ==
    /\ style \in {None} \cup StyleMarks
    /\ letter \in {None} \cup ColourLetters
    /\ block \in BOOLEAN
    /\ body \in (IF block THEN Bodies ELSE {<<>>})
    /\ string = SpanText(style, letter, block, body)
    /\ arg = string
    /\ color \in Bools
    /\ pc = "start"
    /\ result = Returned(<<>>)
    /\ NoWriter

\* result = colorize(string, color=color)
ColorizeSpan ==
    /\ pc = "start"
    /\ result' = colorize(string, color)
    /\ pc' = "colorized"
    /\ UNCHANGED <<string, color, arg, style, letter, block, body,
                   written, tty, cs, ctor, call>>

NextSpan == ColorizeSpan

SpecSpan == InitSpan /\ [][NextSpan]_vars

\* the SGR parameter of a style mark and of a colour letter
StyleCode(st) == IF st = "*" THEN "1" ELSE IF st = "_" THEN "4" ELSE "0"
ColourCode(l) ==
    IF l \in Range(Dim)
    THEN 29 + (CHOOSE i \in 1..8 : Dim[i] = l)
    ELSE 89 + (CHOOSE i \in 1..8 : Bright[i] = l)

\* ESC[<style>m or ESC[<style>;<colour>m
TurnOn(st, l) ==
    <<ESC, "[", StyleCode(st)>>
    \o (IF l = None THEN <<>>
        ELSE <<";", Digit(ColourCode(l) \div 10), Digit(ColourCode(l) % 10)>>)
    \o <<"m">>

Reset == <<ESC, "[", "0", "m">>

\* C2: with color on, a styled span without a brace block that has a style
\* mark or a colour letter renders to exactly ESC[<style>m or
\* ESC[<style>;<colour>m, with no reset appended.
C2_TurnOnOnly ==
    (/\ pc = "colorized" /\ color = "True" /\ ~block
     /\ (style # None \/ letter # None))
    => result = Returned(TurnOn(style, letter))

\* an underlined bright white span without a block was rendered
C2_Witness ==
    /\ pc = "colorized" /\ color = "True" /\ ~block
    /\ style = "_" /\ letter = "W"
    /\ string = <<"@", "_", "W">>
    /\ result = Returned(<<ESC, "[", "4", ";", "9", "7", "m">>)

\* b with every "}}" replaced by "}", left to right
RECURSIVE Unbrace(_)
Unbrace(b) ==
    IF b = <<>> THEN <<>>
    ELSE IF Len(b) >= 2 /\ b[1] = "}" /\ b[2] = "}"
        THEN <<"}">> \o Unbrace(Tail(Tail(b)))
    ELSE <<Head(b)>> \o Unbrace(Tail(b))

\* C3: the text emitted for a brace block is its body with each "}}"
\* replaced by a single "}".
C3_BraceUnescaped ==
    (pc = "colorized" /\ block)
    => /\ result.raised = ""
       /\ StripSgr(result.value, FALSE) = Unbrace(body)

EndsWith(v, tail) ==
    /\ Len(v) >= Len(tail)
    /\ SubSeq(v, Len(v) - Len(tail) + 1, Len(v)) = tail

\* C4: with color on, the rendering of a span with a brace block ends with
\* the reset sequence ESC[0m placed directly after the body text, for every
\* style mark, colour letter and body, the empty body included.
C4_SelfTerminating ==
    (pc = "colorized" /\ color = "True" /\ block)
    => /\ result.raised = ""
       /\ \/ EndsWith(result.value, body \o Reset)
          \/ EndsWith(result.value, Unbrace(body) \o Reset)

(***************************************************************************)
(* The stream writers.  A stream is what it has been written, one entry    *)
(* per write() call, and the answer of its isatty().                       *)
(***************************************************************************)
Bool(b) == IF b THEN "True" ELSE "False"

\* a cwrite that asks the stream whenever color is not true
cwriteIfNot(s, w, isatty, c) ==
    LET col == IF c # "True" THEN Bool(isatty) ELSE c
        r == colorize(s, col)
    IN  IF r.raised # "" THEN [raised |-> r.raised, written |-> w]
        ELSE [raised |-> "", written |-> Append(w, r.value)]

\* a cwrite that writes the string as it is when it does not parse
cwriteBestEffort(s, w, isatty, c) ==
    LET col == IF c = None THEN Bool(isatty) ELSE c
        r == colorize(s, col)
    IN  IF r.raised # "" THEN [raised |-> r.raised, written |-> Append(w, s)]
        ELSE [raised |-> "", written |-> Append(w, r.value)]

\* cwrite(string, stream, color) on a stream that has been written w and
\* whose isatty() answers isatty: the outcome and what the stream holds
cwrite(s, w, isatty, c) ==
    LET col == IF c = None THEN Bool(isatty) ELSE c
        r == colorize(s, col)
    IN  IF r.raised # "" THEN [raised |-> r.raised, written |-> w]
        ELSE [raised |-> "", written |-> Append(w, r.value)]

\* cprint(string, stream, color)
cprint(s, w, isatty, c) == cwrite(s \o <<LF>>, w, isatty, c)

\* the strings handed to the writers: plain text, a literal "@", a coloured
\* block, a bare "@", and a bare "@" after a coloured block
Samples == {<<"a">>, <<"@", "@">>, <<"@", "r", "{", "a", "}">>, <<"@">>,
            <<"@", "r", "{", "a", "}", "@">>}

ColorArgs == {None, "True", "False"}

NoPure ==
    /\ string = <<>> /\ color = None /\ pc = "start" /\ arg = <<>>
    /\ result = Returned(<<>>)

InitWriters ==
    /\ written = <<>>
    /\ tty \in BOOLEAN
    /\ cs = NoStream
    /\ ctor = NoCtor
    /\ call = NoCall
    /\ NoPure
    /\ NoSpan

\* the stream is attached to, or detached from, a terminal
SetTty ==
    /\ tty' = ~tty
    /\ UNCHANGED <<string, color, pc, result, arg, style, letter, block, body,
                   written, cs, ctor, call>>

\* cwrite(s, stream, c)
CWrite(s, c) ==
    /\ Len(written) < MaxWrites
    /\ LET r == cwrite(s, written, tty, c)
       IN  /\ written' = r.written
           /\ call' = [op |-> "cwrite", string |-> s, lines |-> <<>>,
                       color |-> c, raw |-> FALSE, tty |-> tty,
                       before |-> written, raised |-> r.raised]
    /\ UNCHANGED <<string, color, pc, result, arg, style, letter, block, body,
                   tty, cs, ctor>>

\* cprint(s, stream, c)
CPrint(s, c) ==
    /\ Len(written) < MaxWrites
    /\ LET r == cprint(s, written, tty, c)
       IN  /\ written' = r.written
           /\ call' = [op |-> "cprint", string |-> s, lines |-> <<>>,
                       color |-> c, raw |-> FALSE, tty |-> tty,
                       before |-> written, raised |-> r.raised]
    /\ UNCHANGED <<string, color, pc, result, arg, style, letter, block, body,
                   tty, cs, ctor>>

NextWriters ==
    \/ SetTty
    \/ \E s \in Samples, c \in ColorArgs : CWrite(s, c)
    \/ \E s \in Samples, c \in ColorArgs : CPrint(s, c)

SpecWriters == InitWriters /\ [][NextWriters]_vars

\* the string the last cwrite or cprint call rendered
Rendered == IF call.op = "cprint" THEN call.string \o <<LF>> ELSE call.string

\* C6: when the input holds an invalid escape, also after a valid prefix,
\* cwrite and cprint raise and perform no write: the stream holds after the
\* call what it held before it.
C6_NoPartialWrite ==
    (/\ call.op \in {"cwrite", "cprint"}
     /\ \E i \in MatchStarts(Rendered, 1) :
            BareAt(Rendered, i) \/ BadLetterAt(Rendered, i))
    => /\ call.raised = ColorParseError
       /\ written = call.before

\* a cprint of a coloured block and a bare "@" failed on a stream that
\* held something
C6_Witness ==
    /\ call.op = "cprint"
    /\ call.string = <<"@", "r", "{", "a", "}", "@">>
    /\ call.raised = ColorParseError
    /\ call.before # <<>>
    /\ written = call.before

\* C8: a successful cwrite performs exactly one write, of
\* colorize(string, color=c), where c is stream.isatty() when color is None
\* and the given color otherwise, whatever isatty() answers; cprint does the
\* same for string + newline.
C8_OneWrite ==
    (call.op \in {"cwrite", "cprint"} /\ call.raised = "")
    => LET c == IF call.color = None THEN Bool(call.tty) ELSE call.color
       IN  /\ colorize(Rendered, c).raised = ""
           /\ written = call.before \o <<colorize(Rendered, c).value>>

\* a cwrite with color=False to a terminal wrote the plain text
C8_Witness ==
    /\ call.op = "cwrite"
    /\ call.color = "False"
    /\ call.tty
    /\ call.string = <<"@", "r", "{", "a", "}">>
    /\ call.raised = ""
    /\ written = call.before \o <<(<<"a">>)>>

(***************************************************************************)
(* ColorStream                                                             *)
(***************************************************************************)
\* a constructor that resolves color=None from the stream when it is called
ColorStreamDetect(isatty, c) ==
    [built |-> TRUE, color |-> IF c = None THEN Bool(isatty) ELSE c]

\* ColorStream.__init__(stream, color): the object takes the class and the
\* attributes of the wrapped stream, so what it writes is what the stream
\* receives, and keeps color as given
ColorStream(isatty, c) == [built |-> TRUE, color |-> c]

\* the positional parameters of ColorStream.write besides self: string
WriteParams == <<"string">>

\* ColorStream.write called on self with the positional arguments args and
\* raw=raw.  Python binds the arguments to the parameters first: more
\* positional arguments than parameters is a TypeError.  A raw write goes to
\* the write of the wrapped stream's class, a rendered one through cwrite.
ColorStream_write(self, args, raw, w, isatty) ==
    IF Len(args) # Len(WriteParams) THEN [raised |-> TypeError, written |-> w]
    ELSE IF raw THEN [raised |-> "", written |-> Append(w, args[1])]
    ELSE cwrite(args[1], w, isatty, self.color)

\* the loop of ColorStream.writelines from item i: each item is handed to
\* self.write(string, self.color, raw=raw); an exception ends the loop
RECURSIVE WritelinesLoop(_, _, _, _, _, _)
WritelinesLoop(self, sequence, i, raw, w, isatty) ==
    IF i > Len(sequence) THEN [raised |-> "", written |-> w]
    ELSE LET r == ColorStream_write(self, <<sequence[i], self.color>>, raw,
                                    w, isatty)
         IN  IF r.raised # "" THEN r
             ELSE WritelinesLoop(self, sequence, i + 1, raw, r.written, isatty)

\* ColorStream.writelines(sequence, raw=raw)
ColorStream_writelines(self, sequence, raw, w, isatty) ==
    WritelinesLoop(self, sequence, 1, raw, w, isatty)

\* the strings handed to writelines, all of them valid
LineSamples == {<<"a">>, <<"@", "@">>, <<"@", "r", "{", "a", "}">>}

InitColorStream ==
    /\ written = <<>>
    /\ tty \in BOOLEAN
    /\ cs = NoStream
    /\ ctor = NoCtor
    /\ call = NoCall
    /\ NoPure
    /\ NoSpan

\* cs = ColorStream(stream, c)
NewColorStream(c) ==
    /\ ~cs.built
    /\ cs' = ColorStream(tty, c)
    /\ ctor' = [color |-> c, tty |-> tty]
    /\ UNCHANGED <<string, color, pc, result, arg, style, letter, block, body,
                   written, tty, call>>

\* cs.write(s, raw=raw)
CSWrite(s, raw) ==
    /\ cs.built
    /\ Len(written) < MaxWrites
    /\ LET r == ColorStream_write(cs, <<s>>, raw, written, tty)
       IN  /\ written' = r.written
           /\ call' = [op |-> "write", string |-> s, lines |-> <<>>,
                       color |-> None, raw |-> raw, tty |-> tty,
                       before |-> written, raised |-> r.raised]
    /\ UNCHANGED <<string, color, pc, result, arg, style, letter, block, body,
                   tty, cs, ctor>>

\* cs.writelines(sequence, raw=raw)
CSWritelines(sequence, raw) ==
    /\ cs.built
    /\ Len(written) + Len(sequence) <= MaxWrites
    /\ LET r == ColorStream_writelines(cs, sequence, raw, written, tty)
       IN  /\ written' = r.written
           /\ call' = [op |-> "writelines", string |-> <<>>,
                       lines |-> sequence, color |-> None, raw |-> raw,
                       tty |-> tty, before |-> written, raised |-> r.raised]
    /\ UNCHANGED <<string, color, pc, result, arg, style, letter, block, body,
                   tty, cs, ctor>>

NextColorStream ==
    \/ SetTty
    \/ \E c \in ColorArgs : NewColorStream(c)
    \/ \E s \in Samples, raw \in BOOLEAN : CSWrite(s, raw)
    \/ \E sequence \in Strs(LineSamples, MaxLines), raw \in BOOLEAN :
           CSWritelines(sequence, raw)

SpecColorStream == InitColorStream /\ [][NextColorStream]_vars

\* C9 as claimed: a ColorStream built with color=None detects its mode from
\* the stream when it is built, and every later non-raw write uses that
\* mode, whatever isatty() answers at the time of the write.
C9_ModeFixedAtInit ==
    (/\ call.op = "write" /\ ~call.raw /\ call.raised = ""
     /\ ctor.color = None)
    => written = call.before \o <<colorize(call.string, Bool(ctor.tty)).value>>

\* C9 as amended: a ColorStream built with color True or False uses that
\* mode in every non-raw write, whatever isatty() answers; built with
\* color=None it keeps None, and each non-raw write detects the mode from
\* what isatty() answers at the time of that write.
C9_ModeAtWrite ==
    (call.op = "write" /\ ~call.raw /\ call.raised = "")
    => LET c == IF ctor.color = None THEN Bool(call.tty) ELSE ctor.color
       IN  written = call.before \o <<colorize(call.string, c).value>>

\* a ColorStream built with color=None off a terminal wrote a coloured
\* block once the stream was a terminal
C9_Witness ==
    /\ cs.built /\ ctor.color = None /\ ~ctor.tty
    /\ call.op = "write" /\ ~call.raw /\ call.tty
    /\ call.string = <<"@", "r", "{", "a", "}">>
    /\ written = call.before \o <<TurnOn(None, "r") \o <<"a">> \o Reset>>

\* what writelines is to write for one item
RenderedLine(s) ==
    IF call.raw THEN s
    ELSE colorize(s, IF ctor.color = None THEN Bool(call.tty)
                     ELSE ctor.color).value

RECURSIVE RenderedLines(_)
RenderedLines(sequence) ==
    IF sequence = <<>> THEN <<>>
    ELSE <<RenderedLine(Head(sequence))>> \o RenderedLines(Tail(sequence))

\* C10: writelines(sequence, raw=r) completes without error for every
\* sequence of valid strings and writes every item to the wrapped stream
\* exactly once, in order: rendered when r is false, unmodified when true.
C10_WritelinesWritesAll ==
    call.op = "writelines"
    => /\ call.raised = ""
       /\ written = call.before \o RenderedLines(call.lines)

====
